---------------------------- MODULE Spec2Model ----------------------------
(***************************************************************************)
(* Model of src/app.py: the bandwidth report parser                        *)
(* (parse_bandwidth_data), the unit converters (convert_to_bytes,          *)
(* convert_speed_to_bps) and the upload handler (upload_data) writing to   *)
(* the SQLite tables interfaces and consumo_banda.                         *)
(*                                                                         *)
(* Text.  A Python str is a sequence of tokens.  A token is one character  *)
(* ("1", ".", " ", "K", ...) or one of the literal words the code searches *)
(* for ("- Ontem ", "Entrada:", "--- Interface ", an interface name),      *)
(* kept in one piece.  A text is the sequence of its lines, that is        *)
(* text.split('\n'): the empty text is << <<>> >>.  Python's None is the   *)
(* value None below, different from every str, the str 'None' included.    *)
(***************************************************************************)
EXTENDS Integers, Sequences, FiniteSets, TLC

VARIABLES
    \* parse_bandwidth_data
    text,            \* the lines of text.split('\n') the for loop has taken (SpecParse)
    data,            \* the list being built
    current_date,
    current_period,
    ppc,             \* "loop" | "returned" (SpecParse)
    \* the database file
    interfaces,      \* table interfaces: rows [id, nome]
    consumo_banda,   \* table consumo_banda: the committed rows
    \* upload_data, the request in flight or the last one answered
    pc,              \* "idle" | "parse" | "loop" | "responded"
    nlines,          \* lines of the body parsed so far
    parsed_data,
    idx,             \* index of the entry the for loop takes next
    conn,            \* consumo_banda as the open connection sees it:
                     \* the committed rows changed by its own transaction
    records_saved,
    response,        \* the JSON body returned
    \* history, for stating the claims
    h_empty,         \* the body of the request was ''
    h_repeat,        \* the body is the body of the request before, which succeeded
    h_before         \* consumo_banda when the request arrived

vars == <<text, data, current_date, current_period, ppc,
          interfaces, consumo_banda, pc, nlines, parsed_data, idx, conn,
          records_saved, response, h_empty, h_repeat, h_before>>

parserVars == <<data, current_date, current_period>>
uploadVars == <<interfaces, consumo_banda, pc, nlines, parsed_data, idx, conn,
                records_saved, response, h_empty, h_repeat, h_before>>

-----------------------------------------------------------------------------
(* Bounds *)

\* longest text (in lines) given to parse_bandwidth_data
MaxLines == 4

\* longest body (in lines) posted to /api/upload
MaxUploadLines == 4

-----------------------------------------------------------------------------
(* Python values and str methods *)

None == <<"NoneType">>

\* truth value of a str or None: `if x`, `not x`
Truthy(s) == s # None /\ s # <<>>

IsSpace(c) == c = " "

RECURSIVE lstrip(_)
lstrip(s) == IF s # <<>> /\ IsSpace(Head(s)) THEN lstrip(Tail(s)) ELSE s

RECURSIVE rstrip(_)
rstrip(s) ==
    IF s # <<>> /\ IsSpace(s[Len(s)]) THEN rstrip(SubSeq(s, 1, Len(s) - 1)) ELSE s

\* str.strip()
strip(s) == rstrip(lstrip(s))

\* str.startswith(prefix)
startswith(s, prefix) ==
    Len(s) >= Len(prefix) /\ SubSeq(s, 1, Len(prefix)) = prefix

\* str.replace(tok, ''), tok one token
remove(s, tok) == SelectSeq(s, LAMBDA c : c # tok)

lowerChar(c) ==
    CASE c = "K" -> "k" [] c = "M" -> "m" [] c = "G" -> "g" [] c = "T" -> "t"
      [] c = "B" -> "b" [] c = "I" -> "i" [] c = "S" -> "s" [] c = "N" -> "n"
      [] OTHER -> c

\* str.lower()
lower(s) == [k \in 1..Len(s) |-> lowerChar(s[k])]

IsDigit(c) == c \in {"0", "1", "2", "3", "4", "5", "6", "7", "8", "9"}

\* regex class [\d.]
IsNumChar(c) == IsDigit(c) \/ c = "."

\* regex class [a-z]
IsLowerAlpha(c) ==
    c \in {"a", "b", "c", "d", "e", "f", "g", "h", "i", "j", "k", "l", "m",
           "n", "o", "p", "q", "r", "s", "t", "u", "v", "w", "x", "y", "z"}

\* length of the longest prefix of s matching [\d.]*
RECURSIVE numRun(_)
numRun(s) == IF s # <<>> /\ IsNumChar(Head(s)) THEN 1 + numRun(Tail(s)) ELSE 0

\* length of the longest prefix of s matching [a-z]*
RECURSIVE alphaRun(_)
alphaRun(s) == IF s # <<>> /\ IsLowerAlpha(Head(s)) THEN 1 + alphaRun(Tail(s)) ELSE 0

digitVal(c) ==
    CASE c = "0" -> 0 [] c = "1" -> 1 [] c = "2" -> 2 [] c = "3" -> 3
      [] c = "4" -> 4 [] c = "5" -> 5 [] c = "6" -> 6 [] c = "7" -> 7
      [] c = "8" -> 8 [] c = "9" -> 9

RECURSIVE pow10(_)
pow10(n) == IF n = 0 THEN 1 ELSE 10 * pow10(n - 1)

RECURSIVE digitsVal(_)
digitsVal(s) ==
    IF s = <<>> THEN 0 ELSE 10 * digitsVal(SubSeq(s, 1, Len(s) - 1)) + digitVal(s[Len(s)])

(***************************************************************************)
(* float(s) for s made of digits, '.', a leading sign: the value as the    *)
(* fraction sign * num / den, or ValueError.  (Exponents, 'inf', 'nan' and *)
(* '_' are also accepted by float(); the texts checked here hold none.)    *)
(***************************************************************************)
float(s) ==
    LET signed == s # <<>> /\ Head(s) \in {"-", "+"}
        body   == IF signed THEN Tail(s) ELSE s
        dots   == {k \in 1..Len(body) : body[k] = "."}
        digs   == SelectSeq(body, IsDigit)
        decs   == IF dots = {} THEN 0
                  ELSE Len(body) - (CHOOSE k \in dots : TRUE)
    IN  IF /\ \A k \in 1..Len(body) : IsNumChar(body[k])
           /\ Cardinality(dots) <= 1
           /\ digs # <<>>
        THEN [ok |-> TRUE,
              sign |-> IF signed /\ Head(s) = "-" THEN -1 ELSE 1,
              num |-> digitsVal(digs),
              den |-> pow10(decs)]
        ELSE [ok |-> FALSE, sign |-> 1, num |-> 0, den |-> 1]

\* int(f * mult): the product truncated toward zero; raises what float() raised
intOfProduct(f, mult) ==
    IF f.ok THEN [ok |-> TRUE, val |-> f.sign * ((f.num * mult) \div f.den)]
    ELSE [ok |-> FALSE, val |-> 0]

-----------------------------------------------------------------------------
(* convert_to_bytes, convert_speed_to_bps *)

\* units.get(unit, 1) of convert_to_bytes
byteUnits(unit) ==
    CASE unit = <<"k", "i", "b">> -> 1024
      [] unit = <<"m", "i", "b">> -> 1024 * 1024
      [] unit = <<"g", "i", "b">> -> 1024 * 1024 * 1024
      [] unit = <<"t", "i", "b">> -> 1024 * 1024 * 1024 * 1024
      [] unit = <<"k", "b">> -> 1000
      [] unit = <<"m", "b">> -> 1000 * 1000
      [] unit = <<"g", "b">> -> 1000 * 1000 * 1000
      [] unit = <<"t", "b">> -> 1000 * 1000 * 1000 * 1000
      [] OTHER -> 1

\* units.get(unit, 1) of convert_speed_to_bps
speedUnits(unit) ==
    CASE unit = <<"k", "b", "i", "t", "/", "s">> -> 1000
      [] unit = <<"m", "b", "i", "t", "/", "s">> -> 1000 * 1000
      [] unit = <<"g", "b", "i", "t", "/", "s">> -> 1000 * 1000 * 1000
      [] unit = <<"t", "b", "i", "t", "/", "s">> -> 1000 * 1000 * 1000 * 1000
      [] OTHER -> 1

\* value.lower().replace(' ', '')
squeeze(value) == remove(lower(value), " ")

\* re.match(r'([\d.]+)([a-z]+)', v): the two groups, or no match
matchSize(v) ==
    LET n == numRun(v)
        u == alphaRun(SubSeq(v, n + 1, Len(v)))
    IN  IF n >= 1 /\ u >= 1
        THEN [matched |-> TRUE, number |-> SubSeq(v, 1, n),
              unit |-> SubSeq(v, n + 1, n + u)]
        ELSE [matched |-> FALSE, number |-> <<>>, unit |-> <<>>]

\* re.match(r'([\d.]+)([a-z]+/s)', v)
matchSpeed(v) ==
    LET n == numRun(v)
        u == alphaRun(SubSeq(v, n + 1, Len(v)))
    IN  IF /\ n >= 1 /\ u >= 1 /\ Len(v) >= n + u + 2
           /\ v[n + u + 1] = "/" /\ v[n + u + 2] = "s"
        THEN [matched |-> TRUE, number |-> SubSeq(v, 1, n),
              unit |-> SubSeq(v, n + 1, n + u + 2)]
        ELSE [matched |-> FALSE, number |-> <<>>, unit |-> <<>>]

\* [ok |-> TRUE, val |-> the int returned] or [ok |-> FALSE] when it raises
convert_to_bytes(value) ==
    IF ~Truthy(value) \/ value = <<"N", "o", "n", "e">>
    THEN [ok |-> TRUE, val |-> 0]
    ELSE LET v == squeeze(value)
             m == matchSize(v)
         IN  IF m.matched THEN intOfProduct(float(m.number), byteUnits(m.unit))
             ELSE intOfProduct(float(v), 1)

convert_speed_to_bps(speed) ==
    IF ~Truthy(speed) \/ speed = <<"N", "o", "n", "e">>
    THEN [ok |-> TRUE, val |-> 0]
    ELSE LET v == squeeze(speed)
             m == matchSpeed(v)
         IN  IF m.matched THEN intOfProduct(float(m.number), speedUnits(m.unit))
             ELSE intOfProduct(float(v), 1)

-----------------------------------------------------------------------------
(* parse_bandwidth_data *)

\* the literals of the startswith() tests
OntemPrefix == <<"- Ontem ", "(">>
MesPrefix == <<"- No mês ", "(">>
InterfacePrefix == <<"--- Interface ">>

\* \d{n} at s[p .. p+n-1]
digitsAt(s, p, n) == \A k \in p..(p + n - 1) : k <= Len(s) /\ IsDigit(s[k])

\* r'\((\d{4}-\d{2}-\d{2})\)' matches s at p
matchesYMD(s, p) ==
    /\ p + 11 <= Len(s)
    /\ s[p] = "(" /\ digitsAt(s, p + 1, 4) /\ s[p + 5] = "-"
    /\ digitsAt(s, p + 6, 2) /\ s[p + 8] = "-" /\ digitsAt(s, p + 9, 2)
    /\ s[p + 11] = ")"

\* r'\((\d{4}-\d{2})\)' matches s at p
matchesYM(s, p) ==
    /\ p + 8 <= Len(s)
    /\ s[p] = "(" /\ digitsAt(s, p + 1, 4) /\ s[p + 5] = "-"
    /\ digitsAt(s, p + 6, 2) /\ s[p + 8] = ")"

leftmost(S) == CHOOSE p \in S : \A q \in S : p <= q

\* re.search(r'\((\d{4}-\d{2}-\d{2})\)', line): group(1) of the leftmost match, or None
searchYMD(line) ==
    LET ps == {p \in 1..Len(line) : matchesYMD(line, p)}
    IN  IF ps = {} THEN None ELSE SubSeq(line, leftmost(ps) + 1, leftmost(ps) + 10)

\* re.search(r'\((\d{4}-\d{2})\)', line)
searchYM(line) ==
    LET ps == {p \in 1..Len(line) : matchesYM(line, p)}
    IN  IF ps = {} THEN None ELSE SubSeq(line, leftmost(ps) + 1, leftmost(ps) + 7)

\* the branch of the if/elif chain the stripped line takes, d being `data`
branch(line, d) ==
    IF startswith(line, OntemPrefix) THEN "ontem"
    ELSE IF startswith(line, MesPrefix) THEN "mes"
    ELSE IF startswith(line, InterfacePrefix) THEN "interface"
    ELSE IF startswith(line, <<"Entrada:">>) /\ d # <<>> THEN "entrada"
    ELSE IF startswith(line, <<"Saida:">>) /\ d # <<>> THEN "saida"
    ELSE IF startswith(line, <<"Total:">>) /\ d # <<>> THEN "total"
    ELSE IF startswith(line, <<"Taxa de transferência média:">>) /\ d # <<>>
         THEN "taxa_media"
    ELSE "none"

\* the parser's locals between two lines
ParserState(d, cd, cp) == [data |-> d, current_date |-> cd, current_period |-> cp]

\* if line.startswith('- Ontem ('): ...
ontemStep(st, line) ==
    LET date_match == searchYMD(line)
    IN  IF date_match # None
        THEN ParserState(st.data, date_match, <<"diario">>)
        ELSE st

\* mesStep forgetting the day: the date stays YYYY-MM
mesStepNoDay(st, line) ==
    LET date_match == searchYM(line)
    IN  IF date_match # None
        THEN ParserState(st.data, date_match, <<"mensal">>)
        ELSE st

\* elif line.startswith('- No mês ('): ...
mesStep(st, line) ==
    LET date_match == searchYM(line)
    IN  IF date_match # None
        THEN ParserState(st.data, date_match \o <<"-", "0", "1">>, <<"mensal">>)
        ELSE st

\* interfaceStep keeping one record per (interface, date, period)
interfaceStepDedup(st, line) ==
    LET interface == strip(remove(line, "--- Interface "))
        dup == \E i \in 1..Len(st.data) :
                  /\ st.data[i].interface = interface
                  /\ st.data[i].data_referencia = st.current_date
                  /\ st.data[i].periodo = st.current_period
    IN  IF Truthy(st.current_date) /\ Truthy(st.current_period) /\ ~dup
        THEN ParserState(
                 Append(st.data,
                        [interface |-> interface,
                         data_referencia |-> st.current_date,
                         periodo |-> st.current_period,
                         entrada |-> None, saida |-> None,
                         total |-> None, taxa_media |-> None]),
                 st.current_date, st.current_period)
        ELSE st

\* elif line.startswith('--- Interface '): ...
interfaceStep(st, line) ==
    LET interface == strip(remove(line, "--- Interface "))
    IN  IF Truthy(st.current_date) /\ Truthy(st.current_period)
        THEN ParserState(
                 Append(st.data,
                        [interface |-> interface,
                         data_referencia |-> st.current_date,
                         periodo |-> st.current_period,
                         entrada |-> None, saida |-> None,
                         total |-> None, taxa_media |-> None]),
                 st.current_date, st.current_period)
        ELSE st

\* valueStep writing data[0] instead of data[-1]
valueStepFirst(st, line, label, field) ==
    ParserState([st.data EXCEPT ![1][field] = strip(remove(line, label))],
                st.current_date, st.current_period)

\* data[-1][field] = line.replace(label, '').strip()
valueStep(st, line, label, field) ==
    LET n == Len(st.data)
    IN  ParserState([st.data EXCEPT ![n][field] = strip(remove(line, label))],
                    st.current_date, st.current_period)

\* one iteration of `for line in lines`
parseLine(st, rawline) ==
    LET line == strip(rawline)
        b == branch(line, st.data)
    IN  CASE b = "ontem" -> ontemStep(st, line)
          [] b = "mes" -> mesStep(st, line)
          [] b = "interface" -> interfaceStep(st, line)
          [] b = "entrada" -> valueStep(st, line, "Entrada:", "entrada")
          [] b = "saida" -> valueStep(st, line, "Saida:", "saida")
          [] b = "total" -> valueStep(st, line, "Total:", "total")
          [] b = "taxa_media" ->
                 valueStep(st, line, "Taxa de transferência média:", "taxa_media")
          [] OTHER -> st

RECURSIVE parseLines(_, _)
parseLines(st, lines) ==
    IF lines = <<>> THEN st ELSE parseLines(parseLine(st, Head(lines)), Tail(lines))

\* parse_bandwidth_data(text), text given as text.split('\n')
parse_bandwidth_data(lines) == parseLines(ParserState(<<>>, None, None), lines).data

-----------------------------------------------------------------------------
(* The report lines the texts are made of *)

Date_2024_03_15 == <<"2", "0", "2", "4", "-", "0", "3", "-", "1", "5">>
Month_2024_04 == <<"2", "0", "2", "4", "-", "0", "4">>

\* "- Ontem (2024-03-15)"
LineOntem == OntemPrefix \o Date_2024_03_15 \o <<")">>
\* "- Ontem (2024-04)": a day marker without a day
LineOntemBad == OntemPrefix \o Month_2024_04 \o <<")">>
\* "- No mês (2024-04)"
LineMes == MesPrefix \o Month_2024_04 \o <<")">>
\* "- No mês (2024-03-15)": a month marker with a day
LineMesBad == MesPrefix \o Date_2024_03_15 \o <<")">>
\* "  --- Interface WAN  "
LineWAN == <<" ", " ", "--- Interface ", "WAN", " ", " ">>
\* "--- Interface XYZ", a name init_db does not insert
LineXYZ == <<"--- Interface ", "XYZ">>
\* "Entrada: 1 KiB"
LineEntrada == <<"Entrada:", " ", "1", " ", "K", "i", "B">>
\* "Entrada: 2"
LineEntrada2 == <<"Entrada:", " ", "2">>
\* "Saida: 1.5 KiB"
LineSaida == <<"Saida:", " ", "1", ".", "5", " ", "K", "i", "B">>
\* "Total: 3 kb"
LineTotal == <<"Total:", " ", "3", " ", "k", "b">>
\* "Taxa de transferência média: 1 kbit/s"
LineTaxa == <<"Taxa de transferência média:", " ", "1", " ",
              "k", "b", "i", "t", "/", "s">>
\* ""
LineBlank == <<>>

ParseLineSet ==
    {LineOntem, LineOntemBad, LineMes, LineMesBad, LineWAN, LineXYZ,
     LineEntrada, LineEntrada2, LineSaida, LineTotal, LineTaxa, LineBlank}

-----------------------------------------------------------------------------
(* The database as init_db leaves it, and an idle server *)

\* init_db: INSERT OR IGNORE the five names, AUTOINCREMENT ids from 1
init_db_interfaces ==
    {[id |-> 1, nome |-> <<"WAN">>], [id |-> 2, nome |-> <<"CAMPUS">>],
     [id |-> 3, nome |-> <<"DI">>], [id |-> 4, nome |-> <<"ETICE_NUVENS">>],
     [id |-> 5, nome |-> <<"ETICE_GOV">>]}

NoResponse == [success |-> FALSE, message |-> "", records |-> -1]

UploadIdle ==
    /\ interfaces = init_db_interfaces
    /\ consumo_banda = {}
    /\ pc = "idle"
    /\ nlines = 0
    /\ parsed_data = <<>>
    /\ idx = 1
    /\ conn = {}
    /\ records_saved = 0
    /\ response = NoResponse
    /\ h_empty = FALSE
    /\ h_repeat = FALSE
    /\ h_before = {}

ParserIdle ==
    /\ text = <<>>
    /\ data = <<>>
    /\ current_date = None
    /\ current_period = None
    /\ ppc = "returned"

-----------------------------------------------------------------------------
(* SpecParse: parse_bandwidth_data taking one line per step, over every    *)
(* text of at most MaxLines lines of ParseLineSet.  `text` holds the lines *)
(* the loop has taken so far; the text ends where ParseReturn fires.       *)

InitParse ==
    /\ text = <<>>
    /\ data = <<>>
    /\ current_date = None
    /\ current_period = None
    /\ ppc = "loop"
    /\ UploadIdle

\* the loop has a next line and it takes branch b
Takes(rawline, b) ==
    /\ ppc = "loop"
    /\ Len(text) < MaxLines
    /\ branch(strip(rawline), data) = b

\* one iteration of the for loop on rawline
Iterate(rawline) ==
    /\ LET st == parseLine(ParserState(data, current_date, current_period), rawline)
       IN  /\ data' = st.data
           /\ current_date' = st.current_date
           /\ current_period' = st.current_period
    /\ text' = Append(text, rawline)
    /\ UNCHANGED ppc
    /\ UNCHANGED uploadVars

ParseOntem ==
    \E rawline \in ParseLineSet : Takes(rawline, "ontem") /\ Iterate(rawline)

ParseMes ==
    \E rawline \in ParseLineSet : Takes(rawline, "mes") /\ Iterate(rawline)

ParseInterface ==
    \E rawline \in ParseLineSet : Takes(rawline, "interface") /\ Iterate(rawline)

ParseEntrada ==
    \E rawline \in ParseLineSet : Takes(rawline, "entrada") /\ Iterate(rawline)

ParseSaida ==
    \E rawline \in ParseLineSet : Takes(rawline, "saida") /\ Iterate(rawline)

ParseTotal ==
    \E rawline \in ParseLineSet : Takes(rawline, "total") /\ Iterate(rawline)

ParseTaxa ==
    \E rawline \in ParseLineSet : Takes(rawline, "taxa_media") /\ Iterate(rawline)

ParseIgnored ==
    \E rawline \in ParseLineSet : Takes(rawline, "none") /\ Iterate(rawline)

\* the lines are exhausted (split() yields at least one line): return data
ParseReturn ==
    /\ ppc = "loop"
    /\ Len(text) >= 1
    /\ ppc' = "returned"
    /\ UNCHANGED <<text, data, current_date, current_period>>
    /\ UNCHANGED uploadVars

NextParse ==
    \/ ParseOntem
    \/ ParseMes
    \/ ParseInterface
    \/ ParseEntrada
    \/ ParseSaida
    \/ ParseTotal
    \/ ParseTaxa
    \/ ParseIgnored
    \/ ParseReturn

SpecParse == InitParse /\ [][NextParse]_vars

-----------------------------------------------------------------------------
(* upload_data on the database.  Row ids and created_at are left out: no   *)
(* statement of the handler reads them.                                    *)

\* "Entrada: -5"
LineEntradaNeg == <<"Entrada:", " ", "-", "5">>
\* "Entrada: 1.2.3"
LineEntradaBad == <<"Entrada:", " ", "1", ".", "2", ".", "3">>
\* "Taxa de transferência média: 10 Mbit", no '/s'
LineTaxaBad == <<"Taxa de transferência média:", " ", "1", "0", " ",
                 "M", "b", "i", "t">>

\* the lines the posted bodies are made of; a body of them is never ''
UploadLineSet ==
    {LineOntem, LineMes, LineWAN, LineXYZ, LineEntrada,
     LineEntradaNeg, LineEntradaBad, LineTaxaBad}

\* selectInterface falling back to the first interface for an unknown name
selectInterfaceOrFirst(tbl, nome) ==
    IF {r \in tbl : r.nome = nome} # {}
    THEN {r \in tbl : r.nome = nome}
    ELSE {r \in tbl : r.id = 1}

\* SELECT id FROM interfaces WHERE nome = ? : the rows found
selectInterface(tbl, nome) == {r \in tbl : r.nome = nome}

\* the four conversions of one entry, in the order of the code
conversions(entry) ==
    <<convert_to_bytes(entry.entrada), convert_to_bytes(entry.saida),
      convert_to_bytes(entry.total), convert_speed_to_bps(entry.taxa_media)>>

\* some conversion of the entry raises ValueError
raises(entry) == \E k \in 1..4 : ~conversions(entry)[k].ok

\* the tuple bound to the INSERT's placeholders
insertValues(interface_id, entry) ==
    [interface_id |-> interface_id,
     data_referencia |-> entry.data_referencia,
     periodo |-> entry.periodo,
     entrada_bytes |-> conversions(entry)[1].val,
     saida_bytes |-> conversions(entry)[2].val,
     total_bytes |-> conversions(entry)[3].val,
     taxa_media_bps |-> conversions(entry)[4].val]

\* UNIQUE(interface_id, data_referencia, periodo)
sameKey(r, q) ==
    /\ r.interface_id = q.interface_id
    /\ r.data_referencia = q.data_referencia
    /\ r.periodo = q.periodo

\* INSERT OR IGNORE: the conflicting row is kept
insertOrIgnore(tbl, row) ==
    IF \E r \in tbl : sameKey(r, row) THEN tbl ELSE tbl \cup {row}

\* an upsert that merges field by field: a field the new row has at 0 keeps
\* the stored value
insertMerging(tbl, row) ==
    LET old == {r \in tbl : sameKey(r, row)}
        keep(o, n) == IF n = 0 THEN o ELSE n
    IN  IF old = {} THEN tbl \cup {row}
        ELSE (tbl \ old) \cup
             {[row EXCEPT !.entrada_bytes = keep(r.entrada_bytes, @),
                          !.saida_bytes = keep(r.saida_bytes, @),
                          !.total_bytes = keep(r.total_bytes, @),
                          !.taxa_media_bps = keep(r.taxa_media_bps, @)] : r \in old}

\* INSERT OR REPLACE INTO consumo_banda: the conflicting row is deleted
insertOrReplace(tbl, row) == {r \in tbl : ~sameKey(r, row)} \cup {row}

\* a close() that commits what the transaction wrote
closeCommitting(committed, view) == view

\* conn.close() with a transaction open and no commit(): SQLite rolls it back
closeUncommitted(committed, view) == committed

\* conn.commit()
commit(committed, view) == view

\* the test left out
noValidDataNever(parsed) == FALSE

\* `if not parsed_data`
noValidData(parsed) == parsed = <<>>

Failure(msg) == [success |-> FALSE, message |-> msg, records |-> -1]

\* a request may arrive: none is being served
CanArrive == pc \in {"idle", "responded"}

\* POST with body '': `if not text_data: return ...`
UploadEmpty ==
    /\ CanArrive
    /\ pc' = "responded"
    /\ response' = Failure("Nenhum dado fornecido")
    /\ h_empty' = TRUE
    /\ h_repeat' = FALSE
    /\ h_before' = consumo_banda
    /\ parsed_data' = <<>>
    /\ idx' = 1
    /\ records_saved' = 0
    /\ nlines' = 0
    /\ UNCHANGED <<interfaces, consumo_banda, conn>>
    /\ UNCHANGED <<text, ppc, parserVars>>

\* POST with a body that is not '': parse_bandwidth_data takes its next line
UploadParseLine ==
    /\ CanArrive \/ pc = "parse"
    /\ \E rawline \in UploadLineSet :
          LET fresh == pc # "parse"
              st0 == IF fresh THEN ParserState(<<>>, None, None)
                     ELSE ParserState(data, current_date, current_period)
              st == parseLine(st0, rawline)
          IN  /\ (IF fresh THEN 0 ELSE nlines) < MaxUploadLines
              /\ nlines' = (IF fresh THEN 0 ELSE nlines) + 1
              /\ data' = st.data
              /\ current_date' = st.current_date
              /\ current_period' = st.current_period
              /\ h_before' = IF fresh THEN consumo_banda ELSE h_before
    /\ pc' = "parse"
    /\ parsed_data' = <<>>
    /\ idx' = 1
    /\ records_saved' = 0
    /\ response' = NoResponse
    /\ h_empty' = FALSE
    /\ h_repeat' = FALSE
    /\ UNCHANGED <<interfaces, consumo_banda, conn>>
    /\ UNCHANGED <<text, ppc>>

\* the parser returned []: `if not parsed_data: return ...`
UploadNoData ==
    /\ pc = "parse"
    /\ noValidData(data)
    /\ pc' = "responded"
    /\ response' = Failure("Nenhum dado válido encontrado")
    /\ data' = <<>>
    /\ current_date' = None
    /\ current_period' = None
    /\ UNCHANGED <<interfaces, consumo_banda, nlines, parsed_data, idx, conn,
                   records_saved, h_empty, h_repeat, h_before>>
    /\ UNCHANGED <<text, ppc>>

\* the parser returned records: records_saved = 0; with get_db() as conn:
UploadOpen ==
    /\ pc = "parse"
    /\ ~noValidData(data)
    /\ pc' = "loop"
    /\ parsed_data' = data
    /\ idx' = 1
    /\ records_saved' = 0
    /\ conn' = consumo_banda
    /\ data' = <<>>
    /\ current_date' = None
    /\ current_period' = None
    /\ UNCHANGED <<interfaces, consumo_banda, nlines, response,
                   h_empty, h_repeat, h_before>>
    /\ UNCHANGED <<text, ppc>>

\* the body of the request just answered with success is posted again: the
\* parser, a function of the body alone, returns the same records
UploadRepeat ==
    /\ pc = "responded"
    /\ response.success
    /\ pc' = "loop"
    /\ idx' = 1
    /\ records_saved' = 0
    /\ conn' = consumo_banda
    /\ response' = NoResponse
    /\ h_repeat' = TRUE
    /\ h_before' = consumo_banda
    /\ UNCHANGED <<interfaces, consumo_banda, nlines, parsed_data, h_empty>>
    /\ UNCHANGED <<text, ppc, parserVars>>

\* one iteration for an entry whose name the SELECT does not find
UploadSkipUnknown ==
    /\ pc = "loop"
    /\ idx <= Len(parsed_data)
    /\ selectInterface(interfaces, parsed_data[idx].interface) = {}
    /\ idx' = idx + 1
    /\ UNCHANGED <<interfaces, consumo_banda, pc, nlines, parsed_data, conn,
                   records_saved, response, h_empty, h_repeat, h_before>>
    /\ UNCHANGED <<text, ppc, parserVars>>

\* one iteration for an entry of a known interface whose values convert
UploadInsert ==
    /\ pc = "loop"
    /\ idx <= Len(parsed_data)
    /\ \E result \in selectInterface(interfaces, parsed_data[idx].interface) :
          /\ ~raises(parsed_data[idx])
          /\ conn' = insertOrReplace(conn, insertValues(result.id, parsed_data[idx]))
    /\ records_saved' = records_saved + 1
    /\ idx' = idx + 1
    /\ UNCHANGED <<interfaces, consumo_banda, pc, nlines, parsed_data,
                   response, h_empty, h_repeat, h_before>>
    /\ UNCHANGED <<text, ppc, parserVars>>

\* float() raises in a conversion: get_db closes the connection, the
\* except clause answers
UploadConvertError ==
    /\ pc = "loop"
    /\ idx <= Len(parsed_data)
    /\ selectInterface(interfaces, parsed_data[idx].interface) # {}
    /\ raises(parsed_data[idx])
    /\ consumo_banda' = closeUncommitted(consumo_banda, conn)
    /\ conn' = {}
    /\ pc' = "responded"
    /\ response' = Failure("Erro: ValueError")
    /\ UNCHANGED <<interfaces, nlines, parsed_data, idx, records_saved,
                   h_empty, h_repeat, h_before>>
    /\ UNCHANGED <<text, ppc, parserVars>>

\* SQLite raises in an execute() or in commit() (I/O error, or the database
\* locked by the transaction of another request: SQLite admits one writer):
\* get_db closes the connection, the except clause answers
UploadStorageError ==
    /\ pc = "loop"
    /\ consumo_banda' = closeUncommitted(consumo_banda, conn)
    /\ conn' = {}
    /\ pc' = "responded"
    /\ response' = Failure("Erro: sqlite3.OperationalError")
    /\ UNCHANGED <<interfaces, nlines, parsed_data, idx, records_saved,
                   h_empty, h_repeat, h_before>>
    /\ UNCHANGED <<text, ppc, parserVars>>

\* the loop is over: conn.commit(), close, return success
UploadCommit ==
    /\ pc = "loop"
    /\ idx > Len(parsed_data)
    /\ consumo_banda' = commit(consumo_banda, conn)
    /\ conn' = {}
    /\ pc' = "responded"
    /\ response' = [success |-> TRUE,
                    message |-> "Dados processados com sucesso!",
                    records |-> records_saved]
    /\ UNCHANGED <<interfaces, nlines, parsed_data, idx, records_saved,
                   h_empty, h_repeat, h_before>>
    /\ UNCHANGED <<text, ppc, parserVars>>

Init == ParserIdle /\ UploadIdle

Next ==
    \/ UploadEmpty
    \/ UploadParseLine
    \/ UploadNoData
    \/ UploadOpen
    \/ UploadRepeat
    \/ UploadSkipUnknown
    \/ UploadInsert
    \/ UploadConvertError
    \/ UploadStorageError
    \/ UploadCommit

Spec == Init /\ [][Next]_vars

-----------------------------------------------------------------------------
(* What the report lines mean, read off the report format, for stating the *)
(* parser's claims without the parser's own operators                     *)

\* the (reference date, period) a valid date marker line sets
MarkerContext(line) ==
    IF line = LineOntem
    THEN <<Date_2024_03_15, <<"diario">>>>
    ELSE <<<<"2", "0", "2", "4", "-", "0", "4", "-", "0", "1">>, <<"mensal">>>>

IsValidMarker(line) == line \in {LineOntem, LineMes}

IsSectionLine(line) == line \in {LineWAN, LineXYZ}

SectionName(line) == IF line = LineWAN THEN <<"WAN">> ELSE <<"XYZ">>

\* the field a value line is about, and the string it carries
ValueField(line) ==
    CASE line \in {LineEntrada, LineEntrada2} -> "entrada"
      [] line = LineSaida -> "saida"
      [] line = LineTotal -> "total"
      [] line = LineTaxa -> "taxa_media"
      [] OTHER -> "none"

ValueString(line) ==
    CASE line = LineEntrada -> <<"1", " ", "K", "i", "B">>
      [] line = LineEntrada2 -> <<"2">>
      [] line = LineSaida -> <<"1", ".", "5", " ", "K", "i", "B">>
      [] line = LineTotal -> <<"3", " ", "k", "b">>
      [] line = LineTaxa -> <<"1", " ", "k", "b", "i", "t", "/", "s">>

\* index of the last valid marker among the first n lines of t, 0 if none
LastMarker(t, n) ==
    LET ms == {k \in 1..n : IsValidMarker(t[k])}
    IN  IF ms = {} THEN 0 ELSE CHOOSE k \in ms : \A j \in ms : j <= k

\* the indexes, ascending, of the section lines of t that follow a valid marker
Sections(t) ==
    SelectSeq([k \in 1..Len(t) |-> k],
              LAMBDA k : IsSectionLine(t[k]) /\ LastMarker(t, k - 1) > 0)

\* the string of the last value line for field f strictly between lines lo and hi
LastValue(t, f, lo, hi) ==
    LET vs == {k \in (lo + 1)..(hi - 1) : ValueField(t[k]) = f}
    IN  IF vs = {} THEN None
        ELSE ValueString(t[CHOOSE k \in vs : \A j \in vs : j <= k])

ValueFields == {"entrada", "saida", "total", "taxa_media"}

-----------------------------------------------------------------------------
(* Claims about parse_bandwidth_data, checked under SpecParse *)

\* C7: after any prefix of the lines, a record has been appended for a
\* section line if and only if a valid date marker precedes it; each record
\* carries the date and period of the most recent valid marker before its
\* section line ((YYYY-MM-DD, diario) or (YYYY-MM-01, mensal)); a marker
\* without a well-formed date leaves the context as it was; so every period
\* is diario or mensal and every mensal date ends in -01.
C7_ContextRule ==
    LET sec == Sections(text)
        m == LastMarker(text, Len(text))
    IN  /\ Len(data) = Len(sec)
        /\ \A i \in 1..Len(sec) :
              <<data[i].data_referencia, data[i].periodo>>
                  = MarkerContext(text[LastMarker(text, sec[i] - 1)])
        /\ IF m = 0
           THEN current_date = None /\ current_period = None
           ELSE <<current_date, current_period>> = MarkerContext(text[m])
        /\ \A i \in 1..Len(data) :
              /\ data[i].periodo \in {<<"diario">>, <<"mensal">>}
              /\ data[i].periodo = <<"mensal">> =>
                    SubSeq(data[i].data_referencia, 8, 10) = <<"-", "0", "1">>

\* a section line before any marker is dropped; after a daily marker and
\* a malformed monthly marker the section line yields a daily record
C7_Witness ==
    /\ ppc = "returned"
    /\ text = <<LineXYZ, LineOntem, LineMesBad, LineWAN>>
    /\ Len(data) = 1
    /\ data[1].interface = <<"WAN">>
    /\ data[1].periodo = <<"diario">>

\* C8: after any prefix of the lines, the interface names of the records
\* are, in order and with repetitions, those of the section lines that
\* follow a valid marker; no other line adds, removes or moves a record.
C8_OrderAndCardinality ==
    [i \in 1..Len(data) |-> data[i].interface]
        = [i \in 1..Len(Sections(text)) |-> SectionName(text[Sections(text)[i]])]

\* unsorted and repeated: XYZ before WAN, WAN twice under the same marker
C8_Witness ==
    /\ ppc = "returned"
    /\ text = <<LineOntem, LineXYZ, LineWAN, LineWAN>>
    /\ Len(data) = 3
    /\ data[2] = data[3]

\* C9: after any prefix of the lines, each field of each record holds the
\* string of the last value line for that field between the record's
\* section line and the next appended record (markers and other lines in
\* between do not matter), or None when there is no such line; value lines
\* before the first record leave the list empty.
C9_ValueAttribution ==
    LET sec == Sections(text)
    IN  /\ Len(data) = Len(sec)
        /\ \A i \in 1..Len(sec) : \A f \in ValueFields :
              data[i][f] = LastValue(text, f, sec[i],
                                     IF i < Len(sec) THEN sec[i + 1]
                                     ELSE Len(text) + 1)

\* a value overwritten by a later line for the same field; the fields no
\* line set are still None
C9_Witness ==
    /\ ppc = "returned"
    /\ text = <<LineOntem, LineWAN, LineEntrada, LineEntrada2>>
    /\ Len(data) = 1
    /\ data[1].entrada = <<"2">>
    /\ data[1].total = None

-----------------------------------------------------------------------------
(* Claims about upload_data, checked under Spec *)

\* the names init_db inserts
KnownNames ==
    {<<"WAN">>, <<"CAMPUS">>, <<"DI">>, <<"ETICE_NUVENS">>, <<"ETICE_GOV">>}

\* the indexes of the entries of p whose interface is known
KnownIdx(p) == {i \in 1..Len(p) : p[i].interface \in KnownNames}

\* the row an entry of a known interface is stored as
Normalized(entry) ==
    insertValues((CHOOSE r \in init_db_interfaces : r.nome = entry.interface).id,
                 entry)

StorageErrorMessage == "Erro: sqlite3.OperationalError"

\* C1: the committed table changes only at a successful commit, and then
\* holds a row for every accepted record of the call: while a call is in
\* progress and after a call that failed (a conversion error on a later
\* record, a storage error) it is what it was when the call arrived, so no
\* reader sees part of a call; a call aborted inside its loop reports
\* failure.
C1_AllOrNothing ==
    /\ pc \in {"parse", "loop"} => consumo_banda = h_before
    /\ pc = "responded" /\ ~response.success => consumo_banda = h_before
    /\ pc = "responded" /\ idx <= Len(parsed_data) => ~response.success
    /\ pc = "responded" /\ response.success =>
          \A i \in KnownIdx(parsed_data) :
              \E row \in consumo_banda : sameKey(row, Normalized(parsed_data[i]))

\* a conversion failed after a record of the same call had been written
C1_Witness ==
    /\ pc = "responded"
    /\ response.message = "Erro: ValueError"
    /\ records_saved >= 1
    /\ idx >= 2
    /\ consumo_banda = h_before

\* C2: the table (and the connection's view of it) never holds two rows
\* with the same (interface, date, period); after a successful call every
\* row is either a row the call did not touch or exactly the converted
\* values of one of the call's records (all four fields, nothing kept from
\* the row replaced); posting again the body of a successful call leaves
\* the rows as they were.
C2_UpsertByKey ==
    /\ \A r, q \in consumo_banda : sameKey(r, q) => r = q
    /\ \A r, q \in conn : sameKey(r, q) => r = q
    /\ pc = "responded" /\ response.success =>
          \A row \in consumo_banda :
              \/ /\ row \in h_before
                 /\ \A i \in KnownIdx(parsed_data) :
                       ~sameKey(row, Normalized(parsed_data[i]))
              \/ \E i \in KnownIdx(parsed_data) : row = Normalized(parsed_data[i])
    /\ pc = "responded" /\ response.success /\ h_repeat =>
          consumo_banda = h_before

\* the same body ingested a second time, with rows stored
C2_Witness ==
    /\ pc = "responded"
    /\ response.success
    /\ h_repeat
    /\ records_saved >= 1
    /\ consumo_banda # {}
    /\ consumo_banda = h_before

\* C3: an iteration on an entry of an unknown interface changes neither the
\* connection's rows, nor the count, nor the interfaces table, and the loop
\* goes on (the only way it ends there is a storage error); an iteration on
\* an entry of a known interface whose values convert stores its row and
\* counts it, whatever entries surround it.
C3_UnknownInterfaceDropped ==
    [][/\ (/\ pc = "loop"
           /\ idx <= Len(parsed_data)
           /\ parsed_data[idx].interface \notin KnownNames)
          => \/ /\ idx' = idx + 1
                /\ pc' = "loop"
                /\ conn' = conn
                /\ records_saved' = records_saved
                /\ interfaces' = interfaces
                /\ consumo_banda' = consumo_banda
             \/ /\ pc' = "responded"
                /\ response'.message = StorageErrorMessage
                /\ interfaces' = interfaces
                /\ consumo_banda' = consumo_banda
       /\ (/\ pc = "loop"
           /\ idx <= Len(parsed_data)
           /\ parsed_data[idx].interface \in KnownNames
           /\ ~raises(parsed_data[idx])
           /\ pc' = "loop")
          => /\ idx' = idx + 1
             /\ records_saved' = records_saved + 1
             /\ Normalized(parsed_data[idx]) \in conn'
             /\ interfaces' = interfaces
      ]_vars

\* a successful call with an unknown entry before a known one: one row, count 1
C3_Witness ==
    /\ pc = "responded"
    /\ response.success
    /\ Len(parsed_data) = 2
    /\ parsed_data[1].interface = <<"XYZ">>
    /\ parsed_data[2].interface = <<"WAN">>
    /\ response.records = 1
    /\ h_before = {}
    /\ Cardinality(consumo_banda) = 1

\* C4: a call whose body is '' or whose body parses to no record answers
\* with a failure result carrying a message, and leaves consumo_banda and
\* interfaces as they were.
C4_InputErrors ==
    (pc = "responded" /\ (h_empty \/ parsed_data = <<>>)) =>
        /\ ~response.success
        /\ response.message \in {"Nenhum dado fornecido",
                                 "Nenhum dado válido encontrado"}
        /\ h_empty => response.message = "Nenhum dado fornecido"
        /\ consumo_banda = h_before
        /\ interfaces = init_db_interfaces

\* a body of several lines and no record, posted to a table that has rows
C4_Witness ==
    /\ pc = "responded"
    /\ ~h_empty
    /\ parsed_data = <<>>
    /\ nlines >= 2
    /\ consumo_banda # {}
    /\ response.message = "Nenhum dado válido encontrado"

\* C5 (as claimed): every stored row has its four numeric fields >= 0.
C5_NonNegativeFields ==
    \A row \in consumo_banda :
        /\ row.entrada_bytes >= 0
        /\ row.saida_bytes >= 0
        /\ row.total_bytes >= 0
        /\ row.taxa_media_bps >= 0

\* C6 (as claimed): a call with records fails only on a storage error; a
\* malformed size or rate string does not make it fail.
C6_MalformedDoesNotFail ==
    (pc = "responded" /\ parsed_data # <<>>
        /\ response.message # StorageErrorMessage) => response.success

\* C10: the count a successful call returns is the number of its entries of
\* a known interface, repeated triples counted each time; it is at least the
\* number of rows of the table that carry one of the call's triples; and for
\* each triple the row stored holds the values of the last entry with it.
C10_CountAndLastWins ==
    (pc = "responded" /\ response.success) =>
        LET K == KnownIdx(parsed_data)
        IN  /\ response.records = Cardinality(K)
            /\ response.records >=
                  Cardinality({row \in consumo_banda :
                      \E i \in K : sameKey(row, Normalized(parsed_data[i]))})
            /\ \A i \in K :
                  (\A j \in K : j > i =>
                      ~sameKey(Normalized(parsed_data[i]), Normalized(parsed_data[j])))
                  => Normalized(parsed_data[i]) \in consumo_banda

\* two sections for the same triple with different values: count 2, one row,
\* holding the values of the second
C10_Witness ==
    /\ pc = "responded"
    /\ response.success
    /\ h_before = {}
    /\ Len(parsed_data) = 2
    /\ response.records = 2
    /\ sameKey(Normalized(parsed_data[1]), Normalized(parsed_data[2]))
    /\ Normalized(parsed_data[1]) # Normalized(parsed_data[2])
    /\ consumo_banda = {Normalized(parsed_data[2])}

=============================================================================
